---- MODULE Spec2Model ----
(***************************************************************************)
(* State machine of src/script.js: the interaction controller of the       *)
(* landing page.  The state is the part of the DOM the script reads and    *)
(* writes (class flags, aria-expanded, body overflow, focus, scroll        *)
(* offset), the listeners it has registered, its observers and its timer.  *)
(* One action per event listener; a DOM event is dispatched to the         *)
(* listeners on its propagation path, which then run one after the other,  *)
(* each to completion.                                                     *)
(***************************************************************************)
EXTENDS Integers, Sequences, FiniteSets, TLC

\* ------------------------------------------------------------------------
\* Bounds of the model
\* ------------------------------------------------------------------------
\* scroll offsets reach from 0 and scrollThreshold - 1 up to
\* scrollThreshold + ScrollSpan
ScrollSpan == 2
\* calls of window.reinitAnimations in one behaviour
MaxReinit == 1
\* the wait of the debounced function is 1 .. MaxWait time units
MaxWait == 2
\* calls of the debounced function in one behaviour
MaxCalls == 3
\* time units a due timeout can wait for the event loop before it runs
MaxLate == 1

\* ------------------------------------------------------------------------
\* Program constants
\* ------------------------------------------------------------------------
scrollThreshold == 50
headerOffset == 80
\* window.innerHeight of the modelled viewport
innerHeight == 600

\* ------------------------------------------------------------------------
\* The page: the elements the script's selectors can find
\* ------------------------------------------------------------------------
\* An href is a sequence of tokens: <<>> is "", <<"#">> is "#" and
\* <<"#", "sec1">> is "#sec1".
\* document.querySelectorAll('.nav-link'), in document order; here all of
\* them are anchors inside #navLinks
navLinksArray == <<"linkSec", "linkHash">>

\* every anchor element of the page with its href attribute
href ==
    [ linkSec  |-> <<"#", "sec1">>,
      linkHash |-> <<"#">>,
      aSec2    |-> <<"#", "sec2">>,
      aMissing |-> <<"#", "gone">>,
      aDigit   |-> <<"#", "1st">>,
      aEmpty   |-> <<>> ]

AllAnchors == DOMAIN href

\* the elements inside #navLinks (navLinks.contains): the two links and a
\* list item that is no link
InsideNav == {"linkSec", "linkHash", "menuPad"}

\* click targets: the toggle, the elements of the menu, the anchors and a
\* place outside all of them
ClickTargets == {"toggle", "menuPad", "outside"} \cup AllAnchors

\* elements carrying 'fade-in' / 'fade-in-up' in the markup, and one that
\* external code inserts later
StaticCandidates == {"hero", "sec1"}
DynamicCandidates == {"dyn"}
Candidates == StaticCandidates \cup DynamicCandidates

\* the ids present in the document
Ids == {"sec1", "sec2", "1st", "hero"}

\* document layout: top edge in document coordinates and height
layout ==
    [ hero |-> [top |-> 0,   height |-> 300],
      sec1 |-> [top |-> 640, height |-> 400],
      sec2 |-> [top |-> 30,  height |-> 200],
      1st  |-> [top |-> 1040, height |-> 100],
      dyn  |-> [top |-> 320, height |-> 100] ]

\* the scroll offsets the browser can report
ScrollPositions ==
    {0} \cup ((scrollThreshold - 1) .. (scrollThreshold + ScrollSpan))

\* sequential focus order of the page (native Tab order): the toggle, then
\* every anchor in document order (each has an href attribute)
TabOrder ==
    <<"toggle", "linkSec", "linkHash", "aSec2", "aMissing", "aDigit", "aEmpty">>
FocusTargets == {"body", "toggle"} \cup AllAnchors

Initializers ==
    {"initMobileMenu", "initNavbarScroll", "initScrollAnimations",
     "initSmoothScroll", "initButtonEffects", "initKeyboardNavigation"}

\* the listeners the script registers, by the function registered
Handlers ==
    {"toggleClick", "linkClick", "outsideClick", "navbarScroll",
     "anchorClick", "escapeKey", "trapKey"}

VARIABLES
    \* the page
    mobileMenuToggle,   \* TRUE iff #mobileMenuToggle exists (reference non-null)
    navLinks,           \* TRUE iff #navLinks exists
    navbar,             \* TRUE iff #navbar exists
    ioSupported,        \* 'IntersectionObserver' in window
    \* menu state in the DOM
    navActive,          \* navLinks.classList.contains('active')
    toggleActive,       \* mobileMenuToggle.classList.contains('active')
    ariaExpanded,       \* aria-expanded of the toggle: "null", "true", "false"
    bodyOverflow,       \* document.body.style.overflow: "" or "hidden"
    activeElement,      \* document.activeElement
    \* navbar
    pageYOffset,        \* window.pageYOffset
    scrolled,           \* navbar.classList.contains('scrolled')
    lastScroll,         \* closure variable of initNavbarScroll
    \* reveal on scroll
    present,            \* candidate elements now in the document
    visible,            \* those carrying the 'visible' class
    observers,          \* sequence of observers: the set each one observes
    \* initialisation
    readyState,         \* document.readyState
    scriptRan,          \* the script's top level has executed
    dclListeners,       \* DOMContentLoaded listeners registered by init
    ran,                \* how often each initializer has run
    ranWhileLoading,    \* an initializer ran while readyState was 'loading'
    listeners,          \* how many listeners of each kind are registered
    checkTimers,        \* pending setTimeout(checkInitialView, 100) callbacks
    reinitCalls,        \* calls of window.reinitAnimations so far
    \* the event being processed
    ev,                 \* the last event dispatched
    pending,            \* its listeners that have not run yet
    handled,            \* its listeners that have run, in order
    defaultPrevented,   \* e.preventDefault() was called on it
    scrollCalls,        \* the window.scrollTo calls made while handling it
    threw,              \* the listeners that have raised an exception
    \* one function returned by debounce(func, wait)
    dbWait,             \* its wait; 0 while debounce has not been called
    dbTimeout,          \* its closure variable timeout: a timer id, 0 for undefined
    dbTimers,           \* the timeouts set and not yet run or cleared
    dbCalls,            \* calls of the returned function so far
    dbInvoked,          \* the arguments of each invocation of func, in order
    dbBurst,            \* the arguments of the calls since func was last invoked
    dbIdle              \* time since the last call

pageVars == <<mobileMenuToggle, navLinks, navbar, ioSupported>>
menuVars == <<navActive, toggleActive, ariaExpanded, bodyOverflow>>
navbarVars == <<pageYOffset, scrolled, lastScroll>>
animVars == <<present, visible, observers>>
initVars ==
    <<readyState, scriptRan, dclListeners, ran, ranWhileLoading, listeners,
      checkTimers, reinitCalls>>
evVars == <<ev, pending, handled, defaultPrevented, scrollCalls>>

debounceVars ==
    <<dbWait, dbTimeout, dbTimers, dbCalls, dbInvoked, dbBurst, dbIdle>>

vars ==
    <<pageVars, menuVars, activeElement, navbarVars, animVars, initVars,
      evVars, threw, debounceVars>>

NoEvent == [type |-> "none", target |-> "none", key |-> "none", shift |-> FALSE]

\* ------------------------------------------------------------------------
\* Initial state: the parsed page before the script runs
\* ------------------------------------------------------------------------
Init ==
    /\ mobileMenuToggle \in BOOLEAN
    /\ navLinks \in BOOLEAN
    /\ navbar \in BOOLEAN
    /\ ioSupported \in BOOLEAN
    /\ navActive \in (IF navLinks THEN BOOLEAN ELSE {FALSE})
    /\ toggleActive \in (IF mobileMenuToggle THEN BOOLEAN ELSE {FALSE})
    /\ ariaExpanded \in (IF mobileMenuToggle THEN {"null", "false", "true"} ELSE {"null"})
    /\ bodyOverflow = ""
    /\ activeElement = "body"
    /\ pageYOffset = 0
    /\ scrolled = FALSE
    /\ lastScroll = 0
    /\ present = StaticCandidates
    /\ visible = {}
    /\ observers = <<>>
    /\ readyState \in {"loading", "complete"}
    /\ scriptRan = FALSE
    /\ dclListeners = 0
    /\ ran = [i \in Initializers |-> 0]
    /\ ranWhileLoading = FALSE
    /\ listeners = [h \in Handlers |-> 0]
    /\ checkTimers = 0
    /\ reinitCalls = 0
    /\ ev = NoEvent
    /\ pending = <<>>
    /\ handled = <<>>
    /\ defaultPrevented = FALSE
    /\ scrollCalls = <<>>
    /\ threw = {}
    /\ dbWait = 0
    /\ dbTimeout = 0
    /\ dbTimers = {}
    /\ dbCalls = 0
    /\ dbInvoked = <<>>
    /\ dbBurst = <<>>
    /\ dbIdle = 0

\* ------------------------------------------------------------------------
\* Initialisation (init and the six initializers)
\* ------------------------------------------------------------------------
\* initMobileMenu: returns early unless both elements exist; otherwise one
\* click listener on the toggle, one on each nav link, one on the document
AfterInitMobileMenu(l) ==
    IF ~mobileMenuToggle \/ ~navLinks
    THEN l
    ELSE [l EXCEPT !["toggleClick"] = @ + 1,
                   !["linkClick"] = @ + 1,
                   !["outsideClick"] = @ + 1]

\* initNavbarScroll: returns early without the navbar
AfterInitNavbarScroll(l) ==
    IF ~navbar THEN l ELSE [l EXCEPT !["navbarScroll"] = @ + 1]

\* initSmoothScroll: one click listener on each a[href^="#"]
AfterInitSmoothScroll(l) == [l EXCEPT !["anchorClick"] = @ + 1]

\* initKeyboardNavigation: the Escape listener on the document always, the
\* focus-trap listener on the menu only when menu and toggle exist
AfterInitKeyboardNavigation(l) ==
    IF navLinks /\ mobileMenuToggle
    THEN [l EXCEPT !["escapeKey"] = @ + 1, !["trapKey"] = @ + 1]
    ELSE [l EXCEPT !["escapeKey"] = @ + 1]

\* the listeners after one run of the initializers, in init's order
AfterInitializers(l) ==
    AfterInitKeyboardNavigation(
        AfterInitSmoothScroll(AfterInitNavbarScroll(AfterInitMobileMenu(l))))

\* variant: no fallback without IntersectionObserver
VisibleWithoutFallback == visible

\* initScrollAnimations: without IntersectionObserver every candidate in
\* the document becomes visible; with it a new observer observes them all
VisibleAfterInitScrollAnimations ==
    IF ~ioSupported THEN visible \cup present ELSE visible

\* variant: the observer gets the candidates of the first scan only
ObserversOfStaticCandidates ==
    IF ~ioSupported THEN observers ELSE Append(observers, StaticCandidates)

ObserversAfterInitScrollAnimations ==
    IF ~ioSupported THEN observers ELSE Append(observers, present)

\* variant: the early return after registering the listener is missing
InitCallNoReturn ==
    /\ dclListeners' = dclListeners + (IF readyState' = "loading" THEN 1 ELSE 0)
    /\ ran' = [i \in Initializers |-> ran[i] + 1]
    /\ listeners' = AfterInitializers(listeners)
    /\ visible' = VisibleAfterInitScrollAnimations
    /\ observers' = ObserversAfterInitScrollAnimations
    /\ checkTimers' = checkTimers + 1
    /\ ranWhileLoading' = (ranWhileLoading \/ readyState' = "loading")

\* init(): defers itself while the document is loading, otherwise runs the
\* six initializers and schedules checkInitialView
InitCall ==
    IF readyState' = "loading"
    THEN /\ dclListeners' = dclListeners + 1
         /\ UNCHANGED <<ran, ranWhileLoading, listeners, checkTimers,
                        visible, observers>>
    ELSE /\ ran' = [i \in Initializers |-> ran[i] + 1]
         /\ listeners' = AfterInitializers(listeners)
         /\ visible' = VisibleAfterInitScrollAnimations
         /\ observers' = ObserversAfterInitScrollAnimations
         /\ checkTimers' = checkTimers + 1
         /\ UNCHANGED <<dclListeners, ranWhileLoading>>

\* the script's top level: the element lookups, init(), the hook
Script ==
    /\ ~scriptRan
    /\ pending = <<>>
    /\ scriptRan' = TRUE
    /\ UNCHANGED readyState
    /\ InitCall
    /\ UNCHANGED <<debounceVars, pageVars, menuVars, activeElement,
                   navbarVars, present,
                   reinitCalls, evVars, threw>>

\* the document finishes parsing: readyState leaves 'loading' and the
\* DOMContentLoaded listeners run
DOMContentLoaded ==
    /\ readyState = "loading"
    /\ pending = <<>>
    /\ readyState' = "interactive"
    /\ IF dclListeners > 0
       THEN InitCall
       ELSE UNCHANGED <<dclListeners, ran, ranWhileLoading, listeners,
                        checkTimers, visible, observers>>
    /\ UNCHANGED <<debounceVars, scriptRan, pageVars, menuVars, activeElement, navbarVars,
                   present, reinitCalls, evVars, threw>>

\* ------------------------------------------------------------------------
\* Event dispatch
\* ------------------------------------------------------------------------
\* n invocations of listener h with `this` bound to el
Invocations(h, el) == [k \in 1 .. listeners[h] |-> [h |-> h, this |-> el]]

\* the selector a[href^="#"] of initSmoothScroll
IsHashAnchor(a) == a \in AllAnchors /\ Len(href[a]) > 0 /\ href[a][1] = "#"

IsNavLink(t) == \E k \in 1 .. Len(navLinksArray) : navLinksArray[k] = t

\* variant: initSmoothScroll registers before initMobileMenu
ClickListenersAnchorFirst(t) ==
    (IF t = "toggle" THEN Invocations("toggleClick", t) ELSE <<>>)
    \o (IF IsHashAnchor(t) THEN Invocations("anchorClick", t) ELSE <<>>)
    \o (IF IsNavLink(t) THEN Invocations("linkClick", t) ELSE <<>>)
    \o Invocations("outsideClick", "document")

\* the listeners a click on t reaches: those on the target in the order
\* they were registered (initMobileMenu before initSmoothScroll), then the
\* document's
ClickListeners(t) ==
    (IF t = "toggle" THEN Invocations("toggleClick", t) ELSE <<>>)
    \o (IF IsNavLink(t) THEN Invocations("linkClick", t) ELSE <<>>)
    \o (IF IsHashAnchor(t) THEN Invocations("anchorClick", t) ELSE <<>>)
    \o Invocations("outsideClick", "document")

Click(t) ==
    /\ pending = <<>>
    /\ ev' = [type |-> "click", target |-> t, key |-> "none", shift |-> FALSE]
    /\ pending' = ClickListeners(t)
    /\ handled' = <<>>
    /\ defaultPrevented' = FALSE
    /\ scrollCalls' = <<>>
    /\ UNCHANGED <<debounceVars, pageVars, menuVars, activeElement, navbarVars, animVars,
                   initVars, threw>>

Keys == {"Escape", "Tab", "Enter"}

\* a keydown goes to the focused element and bubbles: the menu's listener
\* runs when focus is inside the menu, then the document's; the browser's
\* own handling of Tab comes last
KeyListeners(key) ==
    (IF activeElement \in InsideNav THEN Invocations("trapKey", "navLinks") ELSE <<>>)
    \o Invocations("escapeKey", "document")
    \o (IF key = "Tab" THEN <<[h |-> "defaultTab", this |-> "window"]>> ELSE <<>>)

KeyDown(key, shift) ==
    /\ pending = <<>>
    /\ ev' = [type |-> "keydown", target |-> "focus", key |-> key,
              shift |-> shift]
    /\ pending' = KeyListeners(key)
    /\ handled' = <<>>
    /\ defaultPrevented' = FALSE
    /\ scrollCalls' = <<>>
    /\ UNCHANGED <<debounceVars, pageVars, menuVars, activeElement, navbarVars, animVars,
                   initVars, threw>>

\* the listener whose turn it is
Running(h) == pending # <<>> /\ Head(pending).h = h

\* it returns (or throws): the next listener's turn
Return ==
    /\ pending' = Tail(pending)
    /\ handled' = Append(handled, Head(pending).h)

\* ------------------------------------------------------------------------
\* Mobile menu listeners
\* ------------------------------------------------------------------------
\* setAttribute converts its value to a string
ToAttr(b) == IF b THEN "true" ELSE "false"

\* variant: the scroll lock is never released
ToggleOverflowStuck(isActive) == "hidden"

\* document.body.style.overflow = isActive ? '' : 'hidden'
ToggleOverflow(isActive) == IF isActive THEN "" ELSE "hidden"

\* click on the toggle
ToggleClickHandler ==
    /\ Running("toggleClick")
    /\ LET isActive == navActive
       IN /\ navActive' = ~navActive
          /\ toggleActive' = ~toggleActive
          /\ ariaExpanded' = ToAttr(~isActive)
          /\ bodyOverflow' = ToggleOverflow(isActive)
    /\ Return
    /\ UNCHANGED <<debounceVars, pageVars, activeElement, navbarVars, animVars, initVars,
                   ev, defaultPrevented, scrollCalls, threw>>

\* variant: the nav-link listener forgets to release the scroll lock
LinkClickHandlerKeepsLock ==
    /\ Running("linkClick")
    /\ navActive' = FALSE
    /\ toggleActive' = FALSE
    /\ ariaExpanded' = "false"
    /\ Return
    /\ UNCHANGED <<debounceVars, pageVars, bodyOverflow, activeElement, navbarVars, animVars,
                   initVars, ev, defaultPrevented, scrollCalls, threw>>

\* click on a nav link
LinkClickHandler ==
    /\ Running("linkClick")
    /\ navActive' = FALSE
    /\ toggleActive' = FALSE
    /\ ariaExpanded' = "false"
    /\ bodyOverflow' = ""
    /\ Return
    /\ UNCHANGED <<debounceVars, pageVars, activeElement, navbarVars, animVars, initVars,
                   ev, defaultPrevented, scrollCalls, threw>>

\* variant: the document's listener does not exempt clicks on the toggle
IsOutsideClickNoToggle(t) ==
    LET isClickInsideNav == t \in InsideNav
    IN ~isClickInsideNav /\ navActive

\* variant: the document's listener does not exempt clicks inside the menu
IsOutsideClickNoNav(t) ==
    LET isClickOnToggle == t = "toggle"
    IN ~isClickOnToggle /\ navActive

\* the condition of the document's click listener
IsOutsideClick(t) ==
    LET isClickInsideNav == t \in InsideNav
        isClickOnToggle == t = "toggle"
    IN ~isClickInsideNav /\ ~isClickOnToggle /\ navActive

\* click anywhere, seen by the document
OutsideClickHandler ==
    /\ Running("outsideClick")
    /\ IF IsOutsideClick(ev.target)
       THEN /\ navActive' = FALSE
            /\ toggleActive' = FALSE
            /\ ariaExpanded' = "false"
            /\ bodyOverflow' = ""
       ELSE UNCHANGED menuVars
    /\ Return
    /\ UNCHANGED <<debounceVars, pageVars, activeElement, navbarVars, animVars, initVars,
                   ev, defaultPrevented, scrollCalls, threw>>

\* ------------------------------------------------------------------------
\* Keyboard listeners
\* ------------------------------------------------------------------------
\* variant: Escape acts whether or not the menu is open
EscapeClosesAlways(key) == key = "Escape" /\ navLinks

\* the condition of the document's keydown listener
EscapeCloses(key) == key = "Escape" /\ navLinks /\ navActive

\* keydown seen by the document; mobileMenuToggle.classList raises a
\* TypeError when the toggle is null, after the menu's class was removed
EscapeKeyHandler ==
    /\ Running("escapeKey")
    /\ IF EscapeCloses(ev.key)
       THEN /\ navActive' = FALSE
            /\ IF mobileMenuToggle
               THEN /\ toggleActive' = FALSE
                    /\ ariaExpanded' = "false"
                    /\ bodyOverflow' = ""
                    /\ activeElement' = "toggle"
                    /\ UNCHANGED threw
               ELSE /\ threw' = threw \cup {"escapeKey"}
                    /\ UNCHANGED <<toggleActive, ariaExpanded, bodyOverflow,
                                   activeElement>>
       ELSE UNCHANGED <<menuVars, activeElement, threw>>
    /\ Return
    /\ UNCHANGED <<debounceVars, pageVars, navbarVars, animVars, initVars, ev,
                   defaultPrevented, scrollCalls>>

\* navLinks.querySelectorAll('a, button, [tabindex]:not([tabindex="-1"])'),
\* computed once at setup
focusableElements == <<"linkSec", "linkHash">>

\* variant: the trap does not look at the menu's 'active' class
TrapKeyHandlerIgnoresMenu ==
    /\ Running("trapKey")
    /\ LET firstElement == focusableElements[1]
           lastElement == focusableElements[Len(focusableElements)]
       IN IF ev.key = "Tab" /\ ev.shift /\ activeElement = firstElement
          THEN defaultPrevented' = TRUE /\ activeElement' = lastElement
          ELSE IF ev.key = "Tab" /\ ~ev.shift /\ activeElement = lastElement
          THEN defaultPrevented' = TRUE /\ activeElement' = firstElement
          ELSE UNCHANGED <<defaultPrevented, activeElement>>
    /\ Return
    /\ UNCHANGED <<debounceVars, pageVars, menuVars, navbarVars, animVars, initVars, ev,
                   scrollCalls, threw>>

\* keydown seen by the menu: the focus trap
TrapKeyHandler ==
    /\ Running("trapKey")
    /\ LET firstElement == focusableElements[1]
           lastElement == focusableElements[Len(focusableElements)]
       IN IF navActive /\ ev.key = "Tab" /\ ev.shift /\ activeElement = firstElement
          THEN defaultPrevented' = TRUE /\ activeElement' = lastElement
          ELSE IF navActive /\ ev.key = "Tab" /\ ~ev.shift /\ activeElement = lastElement
          THEN defaultPrevented' = TRUE /\ activeElement' = firstElement
          ELSE UNCHANGED <<defaultPrevented, activeElement>>
    /\ Return
    /\ UNCHANGED <<debounceVars, pageVars, menuVars, navbarVars, animVars, initVars, ev,
                   scrollCalls, threw>>

IndexOf(seq, x) == CHOOSE k \in 1 .. Len(seq) : seq[k] = x

\* the browser's sequential focus navigation
NativeTabTarget(from, shift) ==
    LET n == Len(TabOrder)
    IN IF from = "body"
       THEN (IF shift THEN TabOrder[n] ELSE TabOrder[1])
       ELSE LET k == IndexOf(TabOrder, from)
            IN IF shift
               THEN (IF k = 1 THEN "body" ELSE TabOrder[k - 1])
               ELSE (IF k = n THEN "body" ELSE TabOrder[k + 1])

\* the default action of Tab, unless a listener prevented it
DefaultTab ==
    /\ Running("defaultTab")
    /\ activeElement' =
         IF defaultPrevented THEN activeElement
         ELSE NativeTabTarget(activeElement, ev.shift)
    /\ Return
    /\ UNCHANGED <<debounceVars, pageVars, menuVars, navbarVars, animVars, initVars, ev,
                   defaultPrevented, scrollCalls, threw>>

\* ------------------------------------------------------------------------
\* Smooth scroll for anchor links
\* ------------------------------------------------------------------------
\* href === '#' || href === ''
IsBareHash(h) == h = <<"#">> \/ h = <<>>

\* identifiers a CSS id selector cannot name unescaped (leading digit)
NotCssIdent == {"1st"}

\* document.querySelector(h) for h = "#" followed by at most one token: the
\* element with that id, "null" when there is none, "SyntaxError" when h is
\* no valid selector
QuerySelector(h) ==
    IF Len(h) # 2 \/ h[1] # "#" \/ h[2] \in NotCssIdent THEN "SyntaxError"
    ELSE IF h[2] \in Ids THEN h[2]
    ELSE "null"

\* el.getBoundingClientRect(), in viewport coordinates
RectTop(el) == layout[el].top - pageYOffset
RectBottom(el) == RectTop(el) + layout[el].height

\* elementPosition + window.pageYOffset - headerOffset
OffsetPosition(target) ==
    LET elementPosition == RectTop(target)
    IN elementPosition + pageYOffset - headerOffset

\* variant: a bare "#" is taken as a link to the top of the page
AnchorClickHandlerTopOnBare ==
    /\ Running("anchorClick")
    /\ LET h == href[Head(pending).this]
           target == QuerySelector(h)
       IN IF h = <<"#">>
          THEN /\ defaultPrevented' = TRUE
               /\ scrollCalls' = Append(scrollCalls, [top |-> 0, behavior |-> "smooth"])
               /\ UNCHANGED threw
          ELSE IF target = "SyntaxError"
          THEN /\ threw' = threw \cup {"anchorClick"}
               /\ UNCHANGED <<defaultPrevented, scrollCalls>>
          ELSE IF target # "null"
          THEN /\ defaultPrevented' = TRUE
               /\ scrollCalls' =
                    Append(scrollCalls,
                           [top |-> OffsetPosition(target), behavior |-> "smooth"])
               /\ UNCHANGED threw
          ELSE UNCHANGED <<defaultPrevented, scrollCalls, threw>>
    /\ Return
    /\ UNCHANGED <<debounceVars, pageVars, menuVars, activeElement, navbarVars, animVars,
                   initVars, ev>>

\* click on an a[href^="#"]
AnchorClickHandler ==
    /\ Running("anchorClick")
    /\ LET h == href[Head(pending).this]
           target == QuerySelector(h)
       IN IF IsBareHash(h)
          THEN UNCHANGED <<defaultPrevented, scrollCalls, threw>>
          ELSE IF target = "SyntaxError"
          THEN /\ threw' = threw \cup {"anchorClick"}
               /\ UNCHANGED <<defaultPrevented, scrollCalls>>
          ELSE IF target # "null"
          THEN /\ defaultPrevented' = TRUE
               /\ scrollCalls' =
                    Append(scrollCalls,
                           [top |-> OffsetPosition(target), behavior |-> "smooth"])
               /\ UNCHANGED threw
          ELSE UNCHANGED <<defaultPrevented, scrollCalls, threw>>
    /\ Return
    /\ UNCHANGED <<debounceVars, pageVars, menuVars, activeElement, navbarVars, animVars,
                   initVars, ev>>

\* ------------------------------------------------------------------------
\* Navbar scroll effect
\* ------------------------------------------------------------------------
\* variant: the threshold itself counts as scrolled
IsScrolledAtThreshold(currentScroll) == currentScroll >= scrollThreshold

\* currentScroll > scrollThreshold
IsScrolled(currentScroll) == currentScroll > scrollThreshold

\* the window scrolls to offset y and the scroll listeners run
Scroll(y) ==
    /\ pending = <<>>
    /\ pageYOffset' = y
    /\ IF listeners["navbarScroll"] > 0
       THEN scrolled' = IsScrolled(y) /\ lastScroll' = y
       ELSE UNCHANGED <<scrolled, lastScroll>>
    /\ ev' = [type |-> "scroll", target |-> "window", key |-> "none",
              shift |-> FALSE]
    /\ UNCHANGED <<debounceVars, pageVars, menuVars, activeElement, animVars, initVars,
                   pending, handled, defaultPrevented, scrollCalls, threw>>

\* ------------------------------------------------------------------------
\* Scroll animations
\* ------------------------------------------------------------------------
\* variant: an entry that is not intersecting takes 'visible' away again
VisibleAfterEntriesToggle(entries, intersecting) ==
    (visible \cup intersecting) \ (entries \ intersecting)

\* the class list of the candidates after the observer callback got the
\* entries whose isIntersecting is true
VisibleAfterEntries(entries, intersecting) == visible \cup intersecting

\* the targets of observer k after that callback
ObservedAfterEntries(k, intersecting) == observers[k] \ intersecting

\* the callback of observer k with a batch of entries for targets it
\* observes, some of them intersecting
IntersectionCallback(k, entries, intersecting) ==
    /\ pending = <<>>
    /\ visible' = VisibleAfterEntries(entries, intersecting)
    /\ observers' = [observers EXCEPT ![k] = ObservedAfterEntries(k, intersecting)]
    /\ ev' = [type |-> "intersection", target |-> "observer", key |-> "none",
              shift |-> FALSE]
    /\ UNCHANGED <<debounceVars, pageVars, menuVars, activeElement,
                   navbarVars, present,
                   initVars, pending, handled, defaultPrevented, scrollCalls,
                   threw>>

\* variant: only elements wholly inside the viewport count
IsWhollyInViewport(el) == RectTop(el) >= 0 /\ RectBottom(el) <= innerHeight

\* rect.top < window.innerHeight && rect.bottom > 0
IsInViewport(el) == RectTop(el) < innerHeight /\ RectBottom(el) > 0

\* the timeout set by init fires
CheckInitialView ==
    /\ pending = <<>>
    /\ checkTimers > 0
    /\ checkTimers' = checkTimers - 1
    /\ visible' = visible \cup {el \in present : IsInViewport(el)}
    /\ ev' = [type |-> "timeout", target |-> "window", key |-> "none",
              shift |-> FALSE]
    /\ UNCHANGED <<debounceVars, pageVars, menuVars, activeElement,
                   navbarVars, present,
                   observers, readyState, scriptRan, dclListeners, ran,
                   ranWhileLoading, listeners, reinitCalls, pending, handled,
                   defaultPrevented, scrollCalls, threw>>

\* external code calls window.reinitAnimations, set at the end of the script
ReinitAnimations ==
    /\ pending = <<>>
    /\ scriptRan
    /\ reinitCalls < MaxReinit
    /\ reinitCalls' = reinitCalls + 1
    /\ ran' = [ran EXCEPT !["initScrollAnimations"] = @ + 1]
    /\ ranWhileLoading' = (ranWhileLoading \/ readyState = "loading")
    /\ visible' = VisibleAfterInitScrollAnimations
    /\ observers' = ObserversAfterInitScrollAnimations
    /\ ev' = [type |-> "reinit", target |-> "window", key |-> "none",
              shift |-> FALSE]
    /\ UNCHANGED <<debounceVars, pageVars, menuVars, activeElement,
                   navbarVars, present,
                   readyState, scriptRan, dclListeners, listeners, checkTimers,
                   pending, handled, defaultPrevented, scrollCalls, threw>>

\* external code inserts a new candidate element into the document
InsertContent(el) ==
    /\ pending = <<>>
    /\ el \notin present
    /\ present' = present \cup {el}
    /\ UNCHANGED <<debounceVars, pageVars, menuVars, activeElement, navbarVars, visible,
                   observers, initVars, evVars, threw>>

\* ------------------------------------------------------------------------
\* Next-state relations
\* ------------------------------------------------------------------------
Setup ==
    \/ Script
    \/ DOMContentLoaded

ClickAndKeyEvents ==
    \/ \E t \in ClickTargets : Click(t)
    \/ KeyDown("Escape", FALSE)
    \/ KeyDown("Enter", FALSE)
    \/ \E shift \in BOOLEAN : KeyDown("Tab", shift)

Listeners ==
    \/ ToggleClickHandler
    \/ LinkClickHandler
    \/ AnchorClickHandler
    \/ OutsideClickHandler
    \/ TrapKeyHandler
    \/ EscapeKeyHandler
    \/ DefaultTab

ScrollEvents == \E y \in ScrollPositions : Scroll(y)

RevealEvents ==
    \/ \E k \in 1 .. Len(observers) :
         \E entries \in SUBSET observers[k] :
            \E intersecting \in SUBSET entries :
               entries # {} /\ IntersectionCallback(k, entries, intersecting)
    \/ CheckInitialView
    \/ ReinitAnimations
    \/ \E el \in DynamicCandidates : InsertContent(el)

Next ==
    \/ Setup
    \/ ClickAndKeyEvents
    \/ Listeners
    \/ ScrollEvents
    \/ RevealEvents

\* the whole page
Spec == Init /\ [][Next]_vars

\* the markup of a closed menu: no 'active' class, aria-expanded not "true"
ClosedMarkup == ~navActive /\ ~toggleActive /\ ariaExpanded # "true"
InitClosed == Init /\ ClosedMarkup

\* a page with its menu, toggle and the closed markup
InitPlain ==
    /\ InitClosed
    /\ mobileMenuToggle
    /\ navLinks
    /\ ariaExpanded = "false"

\* The behaviours meet only in the scroll offset and in the clicks on nav
\* links, so each is also checked on its own events.
\* menu, keyboard and anchors: clicks and key presses, from any markup and
\* from the markup of a closed menu
NextMenu == Setup \/ ClickAndKeyEvents \/ Listeners
MenuSpec == Init /\ [][NextMenu]_vars
ClosedMenuSpec == InitClosed /\ [][NextMenu]_vars

\* navbar and anchors: scrolling and clicks
NextScroll ==
    \/ Setup
    \/ \E t \in ClickTargets : Click(t)
    \/ ToggleClickHandler
    \/ LinkClickHandler
    \/ AnchorClickHandler
    \/ OutsideClickHandler
    \/ ScrollEvents
ScrollSpec == InitClosed /\ [][NextScroll]_vars

\* reveal on scroll: scrolling, observers, the timer and the hook
NextReveal == Setup \/ ScrollEvents \/ RevealEvents
RevealSpec == InitPlain /\ [][NextReveal]_vars

\* the same with the browser's promise that a timeout that is due runs
FairRevealSpec == RevealSpec /\ WF_vars(CheckInitialView)

\* ------------------------------------------------------------------------
\* debounce (a utility the script defines and never calls)
\* ------------------------------------------------------------------------
\* the arguments a caller passes to the debounced function
Args == {"a", "b"}

\* clearTimeout(id): the timeout with that id, if still set, never runs;
\* undefined and ids of timeouts that ran or were cleared have no effect
ClearTimeout(timers, id) == {t \in timers : t.id # id}

\* setTimeout(later, wait) of the k-th call: later keeps the call's args
NewTimeout(args) == [id |-> dbCalls + 1, args |-> args, left |-> dbWait]

\* a call that sets its timeout without clearing the one before
TimersAfterCallNoClear(args) == dbTimers \cup {NewTimeout(args)}

\* the timeouts after executedFunction(...args): clear, then set
TimersAfterCall(args) ==
    ClearTimeout(dbTimers, dbTimeout) \cup {NewTimeout(args)}

\* a timeout whose wait has elapsed: the event loop may run it
Due(t) == t.left <= 0

\* debounce(func, wait): returns the function; timeout is undefined
Debounce(wait) ==
    /\ dbWait = 0
    /\ dbWait' = wait
    /\ dbTimeout' = 0
    /\ UNCHANGED <<dbTimers, dbCalls, dbInvoked, dbBurst, dbIdle>>
    /\ UNCHANGED <<pageVars, menuVars, activeElement, navbarVars, animVars,
                   initVars, evVars, threw>>

\* executedFunction(...args), at any time: a timeout that is due and has
\* not run yet is cleared like any other
DebouncedCall(args) ==
    /\ dbWait > 0
    /\ dbCalls < MaxCalls
    /\ dbTimers' = TimersAfterCall(args)
    /\ dbTimeout' = NewTimeout(args).id
    /\ dbCalls' = dbCalls + 1
    /\ dbBurst' = Append(dbBurst, args)
    /\ dbIdle' = 0
    /\ UNCHANGED <<dbWait, dbInvoked>>
    /\ UNCHANGED <<pageVars, menuVars, activeElement, navbarVars, animVars,
                   initVars, evVars, threw>>

\* one unit of time passes while timeouts are set; a due timeout stays
\* set until the event loop runs it
Tick ==
    /\ dbTimers # {}
    /\ \A t \in dbTimers : t.left > -MaxLate
    /\ dbTimers' = {[t EXCEPT !.left = @ - 1] : t \in dbTimers}
    /\ dbIdle' = dbIdle + 1
    /\ UNCHANGED <<dbWait, dbTimeout, dbCalls, dbInvoked, dbBurst>>
    /\ UNCHANGED <<pageVars, menuVars, activeElement, navbarVars, animVars,
                   initVars, evVars, threw>>

\* later() of a due timeout: clearTimeout(timeout), then func(...args)
Later ==
    \E t \in dbTimers :
        /\ Due(t)
        /\ dbTimers' = ClearTimeout(dbTimers \ {t}, dbTimeout)
        /\ dbInvoked' = Append(dbInvoked, t.args)
        /\ dbBurst' = <<>>
        /\ UNCHANGED <<dbWait, dbTimeout, dbCalls, dbIdle>>
        /\ UNCHANGED <<pageVars, menuVars, activeElement, navbarVars,
                       animVars, initVars, evVars, threw>>

\* a caller of the utility: the page stays as loaded, time passes and a
\* due timeout runs at some time, unless a call clears it first
NextDebounce ==
    \/ \E w \in 1..MaxWait : Debounce(w)
    \/ \E a \in Args : DebouncedCall(a)
    \/ Tick
    \/ Later
DebounceSpec ==
    InitPlain /\ [][NextDebounce]_vars /\ WF_vars(Tick) /\ WF_vars(Later)

\* ------------------------------------------------------------------------
\* Properties
\* ------------------------------------------------------------------------
OpenState ==
    navActive /\ toggleActive /\ ariaExpanded = "true" /\ bodyOverflow = "hidden"

ClosedState ==
    ~navActive /\ ~toggleActive /\ ariaExpanded = "false" /\ bodyOverflow = ""

\* C1: from a page whose menu is closed, after every complete event the
\* four indicators agree: menu 'active' iff toggle 'active' iff
\* aria-expanded is "true" iff body overflow is 'hidden'.
MenuIndicatorsAgree ==
    pending = <<>> =>
        /\ navActive = toggleActive
        /\ toggleActive = (ariaExpanded = "true")
        /\ (ariaExpanded = "true") = (bodyOverflow = "hidden")

\* the menu is open after a click on the toggle made with focus on a link
MenuOpenAfterToggleClick ==
    /\ pending = <<>>
    /\ ev.type = "click" /\ ev.target = "toggle"
    /\ handled = <<"toggleClick", "outsideClick">>
    /\ OpenState
    /\ activeElement = "linkHash"

\* the listeners of the menu and of the keyboard handling
MenuHandlers == {"toggleClick", "linkClick", "outsideClick", "escapeKey", "trapKey"}

\* C2: with the menu or the toggle absent no listener raises an error and
\* the 'active' classes, aria-expanded and body overflow never change.
AbsentElementsNoOp ==
    [][(~mobileMenuToggle \/ ~navLinks) =>
          /\ threw' \cap MenuHandlers = {}
          /\ UNCHANGED <<navActive, toggleActive, ariaExpanded, bodyOverflow>>]_vars

\* the listener that closes the menu in the running step, if it is one of
\* the four closing triggers
ClosingTrigger ==
    \/ Running("toggleClick")
    \/ Running("linkClick")
    \/ Running("outsideClick") /\ ev.target \notin (InsideNav \cup {"toggle"})
    \/ Running("escapeKey") /\ ev.key = "Escape"

\* C3: while the menu is open each of the four closing triggers leaves the
\* same state (no 'active' on menu and toggle, aria-expanded "false", body
\* scroll unlocked), the listeners that follow in the same event keep it,
\* and only Escape moves focus to the toggle.
ClosingTriggersAgree ==
    [][/\ (navActive /\ ClosingTrigger) =>
            /\ ClosedState'
            /\ activeElement' = (IF Running("escapeKey") THEN "toggle" ELSE activeElement)
       /\ (ClosedState /\ ev.type = "click" /\ pending # <<>> /\ ~Running("toggleClick")) =>
            (ClosedState' /\ activeElement' = activeElement)
      ]_vars

\* Escape has closed the menu and focus is on the toggle
ClosedByEscape ==
    /\ pending = <<>>
    /\ ev.type = "keydown" /\ ev.key = "Escape"
    /\ handled = <<"trapKey", "escapeKey">>
    /\ ClosedState
    /\ activeElement = "toggle"

\* C4: a click on the toggle of a closed menu opens it, and the document's
\* click listener, which runs next, leaves it open.
ToggleOpensMenu ==
    [][/\ (Running("toggleClick") /\ ~navActive /\ ~toggleActive) =>
            (OpenState' /\ pending' = <<[h |-> "outsideClick", this |-> "document"]>>)
       /\ (Running("outsideClick") /\ ev.target = "toggle" /\ OpenState) =>
            (OpenState' /\ pending' = <<>>)
      ]_vars

\* the click on the toggle is complete and the menu is open
OpenedByToggle ==
    /\ pending = <<>>
    /\ ev.type = "click" /\ ev.target = "toggle"
    /\ handled = <<"toggleClick", "outsideClick">>
    /\ OpenState
    /\ activeElement = "body"

\* C5: Escape pressed while the menu is closed changes neither the 'active'
\* classes, aria-expanded, body overflow nor the focus.
EscapeWhileClosedNoEffect ==
    [][(ev'.type = "keydown" /\ ev'.key = "Escape" /\ ~navActive) =>
          UNCHANGED <<navActive, toggleActive, ariaExpanded, bodyOverflow,
                      activeElement>>]_vars

\* Escape was handled on a page whose menu was never opened, with focus on
\* a nav link
EscapeHandledWhileClosed ==
    /\ pending = <<>>
    /\ ev.type = "keydown" /\ ev.key = "Escape"
    /\ handled = <<"trapKey", "escapeKey">>
    /\ mobileMenuToggle /\ navLinks
    /\ ~navActive /\ ~toggleActive /\ ariaExpanded = "null"
    /\ activeElement = "linkSec"

\* C6: after every scroll event the navbar has 'scrolled' iff the offset
\* is strictly greater than 50, and a scroll event at the offset of the
\* last one leaves the class as it is.
NavbarScrolledIffPastThreshold ==
    [][((\E y \in ScrollPositions : Scroll(y)) /\ listeners["navbarScroll"] > 0) =>
          /\ scrolled' = (pageYOffset' > 50)
          /\ (pageYOffset' = lastScroll /\ scrolled = (lastScroll > 50)) =>
                scrolled' = scrolled
      ]_vars

\* a scroll event at offset 51 has set the class
ScrolledPastThreshold ==
    /\ ev.type = "scroll"
    /\ listeners["navbarScroll"] = 1
    /\ pageYOffset = 51 /\ lastScroll = 51
    /\ scrolled

\* C7: an element that has 'visible' keeps it, whatever event follows.
VisibleIsForever == [][visible \subseteq visible']_vars

\* both observers have had an intersecting entry for the same element, so
\* the later callback ran for an element that was visible already
CallbackOnVisibleElement ==
    /\ ev.type = "intersection"
    /\ reinitCalls = 1
    /\ checkTimers = 0
    /\ Len(observers) = 2
    /\ "hero" \in visible
    /\ "hero" \notin observers[1] /\ "hero" \notin observers[2]

\* C8: an element carrying 'visible' is observed by no observer.
VisibleNotObserved ==
    \A k \in 1 .. Len(observers) : observers[k] \cap visible = {}

\* C9: a click on an anchor whose href is "#" or "" never calls
\* preventDefault and never requests a scroll.
BareHashIsLeftAlone ==
    (ev.type = "click" /\ ev.target \in AllAnchors /\ IsBareHash(href[ev.target])) =>
        (~defaultPrevented /\ scrollCalls = <<>>)

\* the smooth-scroll listener of the "#" link has run
BareHashHandled ==
    /\ pending = <<>>
    /\ ev.type = "click" /\ ev.target = "linkHash"
    /\ handled = <<"linkClick", "anchorClick", "outsideClick">>
    /\ ~defaultPrevented /\ scrollCalls = <<>>

\* C10: the listener of an anchor with a non-bare hash calls preventDefault
\* and requests one smooth scroll to (viewport top of the target + scroll
\* offset - 80) when the document has an element with the id the href
\* names, and does neither when it has none.
SmoothScrollTarget ==
    [][Running("anchorClick") =>
          LET h == href[Head(pending).this]
          IN ~IsBareHash(h) =>
               IF h[2] \in Ids
               THEN /\ defaultPrevented'
                    /\ scrollCalls' =
                         <<[top |-> (layout[h[2]].top - pageYOffset)
                                       + pageYOffset - 80,
                            behavior |-> "smooth"]>>
               ELSE UNCHANGED <<defaultPrevented, scrollCalls>>
      ]_vars

\* C11: with the menu open, Tab on the last focusable element of the menu
\* moves focus to the first and Shift+Tab on the first moves it to the
\* last, each with the default suppressed; for every other Tab press, and
\* for every Tab press while the menu is closed, the listeners neither move
\* focus nor suppress the default, which is left to the browser.
FocusTrapWraps ==
    [][(ev'.type = "keydown" /\ ev'.key = "Tab") =>
          /\ Running("trapKey") =>
                IF navActive /\ ~ev.shift /\ activeElement = "linkHash"
                THEN activeElement' = "linkSec" /\ defaultPrevented'
                ELSE IF navActive /\ ev.shift /\ activeElement = "linkSec"
                THEN activeElement' = "linkHash" /\ defaultPrevented'
                ELSE UNCHANGED <<activeElement, defaultPrevented>>
          /\ Running("escapeKey") => UNCHANGED <<activeElement, defaultPrevented>>
          /\ Running("defaultTab") =>
                /\ UNCHANGED defaultPrevented
                /\ defaultPrevented => UNCHANGED activeElement
                /\ ~defaultPrevented =>
                      activeElement' = NativeTabTarget(activeElement, ev.shift)
      ]_vars

\* Tab on the last link of the open menu has wrapped to the first
TabWrappedToFirst ==
    /\ pending = <<>>
    /\ ev.type = "keydown" /\ ev.key = "Tab" /\ ~ev.shift
    /\ handled = <<"trapKey", "escapeKey", "defaultTab">>
    /\ navActive
    /\ defaultPrevented
    /\ activeElement = "linkSec"

\* C12: while the menu is open, after each Tab or Shift+Tab press the focus
\* is on one of the menu's focusable elements.
TabFocusConfined ==
    (pending = <<>> /\ ev.type = "keydown" /\ ev.key = "Tab" /\ OpenState) =>
        activeElement \in {"linkSec", "linkHash"}

\* C13: the debounced function never invokes func itself; func is invoked
\* only by the timeout of the latest call, not before wait after that call
\* and with that call's arguments, and that ends the burst, so a later call
\* starts a new one; every call served before the timeout has run, due or
\* not, belongs to the burst; during a burst exactly one timeout is set,
\* due wait after the latest call, and outside a burst none is; every burst
\* ends.
DebounceLastCallOnly ==
    /\ [][/\ dbCalls' # dbCalls => dbInvoked' = dbInvoked
          /\ dbInvoked' # dbInvoked =>
                /\ dbBurst # <<>>
                /\ dbInvoked' = Append(dbInvoked, dbBurst[Len(dbBurst)])
                /\ dbIdle >= dbWait
                /\ dbBurst' = <<>>
                /\ dbTimers' = {}]_vars
    /\ [](dbBurst # <<>> =>
            /\ Cardinality(dbTimers) = 1
            /\ \A t \in dbTimers :
                /\ t.left = dbWait - dbIdle
                /\ t.args = dbBurst[Len(dbBurst)])
    /\ [](dbBurst = <<>> => dbTimers = {})
    /\ [](Len(dbInvoked) + (IF dbBurst = <<>> THEN 0 ELSE 1) <= dbCalls)
    /\ (dbBurst # <<>>) ~> (dbBurst = <<>>)

\* two calls were answered by one invocation with the second call's
\* arguments, which ran later than wait after that call
BurstAnsweredLate ==
    /\ dbCalls = 2
    /\ dbInvoked = <<"b">>
    /\ dbBurst = <<>>
    /\ dbIdle > dbWait

\* C13 as stated: func is invoked exactly wait after the last call of a
\* burst, and a call that arrives when the wait of the call before it has
\* elapsed finds that call answered.
DebounceExactlyAfterWait ==
    [][/\ dbInvoked' # dbInvoked => dbIdle = dbWait
       /\ (dbCalls' # dbCalls /\ dbBurst # <<>>) => dbIdle < dbWait]_vars

\* C14: without IntersectionObserver every run of initScrollAnimations, at
\* setup and through the hook, makes every candidate then in the document
\* visible, and no observer ever exists.
FallbackShowsAll ==
    [][~ioSupported =>
          /\ observers = <<>> /\ observers' = <<>>
          /\ ran'["initScrollAnimations"] > ran["initScrollAnimations"] =>
                (visible' = visible \cup present /\ present \subseteq visible')
      ]_vars

\* without IntersectionObserver the hook has shown an inserted element
FallbackShowedInserted ==
    /\ ~ioSupported
    /\ ev.type = "reinit"
    /\ reinitCalls = 1
    /\ ran["initScrollAnimations"] = 2
    /\ checkTimers = 1
    /\ visible = Candidates
    /\ observers = <<>>

\* the candidates in the document whose box overlaps the viewport: top
\* edge above the viewport's bottom edge, bottom edge below its top edge
OnScreen ==
    {el \in present :
        /\ layout[el].top - pageYOffset < 600
        /\ layout[el].top + layout[el].height - pageYOffset > 0}

\* C15: setup schedules the one deferred viewport check; it runs without
\* any other event, makes exactly the candidates overlapping the viewport
\* visible in addition, and so an element that is on screen (the hero, at
\* every scroll offset) becomes visible.
DeferredCheckRuns ==
    /\ [](checkTimers \in {0, 1})
    /\ [][checkTimers' > checkTimers =>
             (ran["initScrollAnimations"] = reinitCalls
              /\ ran'["initScrollAnimations"] = reinitCalls + 1)]_vars
    /\ [][checkTimers' < checkTimers =>
             (visible' = visible \cup OnScreen /\ UNCHANGED <<present, observers>>)]_vars
    /\ (checkTimers = 1) ~> (checkTimers = 0 /\ "hero" \in visible)

\* the deferred check ran at offset 0 and showed the hero, not the section
\* below the fold
DeferredCheckShowedHero ==
    /\ ev.type = "timeout"
    /\ checkTimers = 0
    /\ pageYOffset = 0
    /\ ioSupported
    /\ reinitCalls = 0
    /\ visible = {"hero"}
    /\ observers = <<{"hero", "sec1"}>>

\* how often init has run initializer i: its runs without those made
\* through window.reinitAnimations
RunsByInit(i) ==
    ran[i] - (IF i = "initScrollAnimations" THEN reinitCalls ELSE 0)

\* C16: init runs each of the six initializers exactly once and schedules
\* the deferred check exactly once, whether the script ran while the
\* document was loading or after, and never while it is loading.
InitializedOnce ==
    /\ [](\A i \in Initializers : RunsByInit(i) \in {0, 1})
    /\ [](readyState = "loading" =>
             (checkTimers = 0 /\ \A i \in Initializers : RunsByInit(i) = 0))
    /\ []((scriptRan /\ readyState # "loading") =>
             \A i \in Initializers : RunsByInit(i) = 1)
    /\ [][checkTimers' > checkTimers =>
             /\ checkTimers = 0 /\ checkTimers' = 1
             /\ \A i \in Initializers : RunsByInit(i) = 0 /\ RunsByInit(i)' = 1
         ]_vars
    /\ [][(\E i \in Initializers : RunsByInit(i)' # RunsByInit(i)) =>
             checkTimers' = checkTimers + 1]_vars

\* the script ran while the document was loading, the document became
\* ready, init ran once and the deferred check has fired
InitializedAfterLoading ==
    /\ readyState = "interactive"
    /\ scriptRan
    /\ dclListeners = 1
    /\ \A i \in Initializers : RunsByInit(i) = 1
    /\ listeners["escapeKey"] = 1
    /\ ev.type = "timeout"
    /\ checkTimers = 0

\* C17: a call of window.reinitAnimations scans the page again: with
\* IntersectionObserver a new observer observes every candidate in the
\* document at that moment, inserted ones included, and an observed element
\* becomes visible with its first intersecting entry; without it they all
\* become visible at once; visible elements stay visible.
ReinitRescans ==
    /\ [][reinitCalls' > reinitCalls =>
             /\ visible \subseteq visible'
             /\ IF ioSupported
                THEN /\ Len(observers') = Len(observers) + 1
                     /\ observers'[Len(observers')] = present
                     /\ \A k \in 1 .. Len(observers) : observers'[k] = observers[k]
                ELSE present \subseteq visible'
         ]_vars
    /\ [][\A intersecting \in SUBSET Candidates :
             ~(intersecting \subseteq visible' /\ visible \subseteq visible') =>
                \A k \in 1 .. Len(observers) :
                   \A entries \in SUBSET observers[k] :
                      intersecting \subseteq entries =>
                         ~IntersectionCallback(k, entries, intersecting)
         ]_vars

\* the element inserted after setup was observed by the hook's observer
\* and its intersecting entry made it visible, before the timer fired
InsertedElementRevealed ==
    /\ ioSupported
    /\ ev.type = "intersection"
    /\ reinitCalls = 1
    /\ checkTimers = 1
    /\ Len(observers) = 2
    /\ observers[1] = StaticCandidates
    /\ observers[2] = StaticCandidates
    /\ visible = {"dyn"}

\* C18: one click on a nav link of the open menu that is an anchor with an
\* existing target runs the menu-close listener, then the smooth-scroll
\* listener, then the document's listener; the menu is closed and the
\* body unlocked when the scroll is requested, and the click ends with the
\* menu closed, the default prevented and one smooth scroll requested.
NavAnchorClickOrder ==
    [][(ev'.type = "click" /\ ev'.target = "linkSec" /\ listeners["linkClick"] = 1) =>
          /\ (pending = <<>> /\ pending' # <<>>) =>
                /\ handled' = <<>> /\ scrollCalls' = <<>> /\ ~defaultPrevented'
                /\ Running("linkClick")'
          /\ Running("linkClick") =>
                (ClosedState' /\ scrollCalls' = <<>> /\ Running("anchorClick")')
          /\ Running("anchorClick") =>
                /\ handled = <<"linkClick">>
                /\ ClosedState /\ ClosedState'
                /\ defaultPrevented'
                /\ Len(scrollCalls') = 1 /\ scrollCalls'[1].behavior = "smooth"
                /\ Running("outsideClick")'
          /\ Running("outsideClick") =>
                /\ handled = <<"linkClick", "anchorClick">>
                /\ ClosedState'
                /\ UNCHANGED <<defaultPrevented, scrollCalls>>
                /\ defaultPrevented /\ Len(scrollCalls) = 1
                /\ pending' = <<>>
      ]_vars

\* a click on the "#sec1" nav link of the open menu has been dispatched
\* and its menu-close listener is about to run
NavAnchorClickOnOpenMenu ==
    /\ ev.type = "click" /\ ev.target = "linkSec"
    /\ handled = <<>>
    /\ Running("linkClick")
    /\ OpenState

\* C19: the document's click listener leaves the menu alone unless it is
\* open and the target is outside the menu and the toggle: a click on a
\* part of the open menu that is no link leaves it open, a click outside
\* on a closed menu changes nothing.
OutsideClickFrame ==
    [][Running("outsideClick") =>
          /\ (~navActive \/ ev.target \in {"linkSec", "linkHash", "menuPad", "toggle"}) =>
                UNCHANGED <<navActive, toggleActive, ariaExpanded, bodyOverflow>>
          /\ (ev.target = "menuPad" /\ OpenState) => OpenState'
          /\ (navActive /\ ev.target \notin {"linkSec", "linkHash", "menuPad", "toggle"}) =>
                ~navActive'
      ]_vars

\* a click on the list item of the open menu is complete and the menu is
\* still open
InsideClickLeftMenuOpen ==
    /\ pending = <<>>
    /\ ev.type = "click" /\ ev.target = "menuPad"
    /\ handled = <<"outsideClick">>
    /\ OpenState
====
